---- MODULE Spec2Model ----
(***************************************************************************)
(* Model of pipeline_coordinator.py: the PipelineCoordinator that runs the *)
(* three agent programs one after the other as subprocesses, finds each    *)
(* agent's output file in the working directory by prefix and newest       *)
(* modification time, archives the three files and reports the run.        *)
(*                                                                         *)
(* The agent programs are subprocesses of the coordinator: what a child    *)
(* does (write files, exit with a code, run too long) is the environment   *)
(* of the coordinator and is nondeterministic here.                        *)
(***************************************************************************)
EXTENDS Integers, Sequences, FiniteSets, TLC

VARIABLES
    pc,               \* position of the coordinator process (main)
    argv,             \* sys.argv of the coordinator process (argv[1] is the program)
    now,              \* time.time(), in seconds
    scripts,          \* agent script files that exist in the working directory
    cwd,              \* the *.json / *.md files of the working directory
    coordinator,      \* fields of the PipelineCoordinator object (<<>> before construction)
    call,             \* arguments of run_complete_pipeline (<<>> before the call)
    results_dir,      \* the directory self.results_dir: whether it exists, its files
    stage,            \* which of the three stages run_complete_pipeline is at
    procs,            \* every child process spawned so far, in spawn order
    launched,         \* stage keys handed to run_agent so far, in call order
    agent_outputs,    \* agent_1_output, agent_2_output, final_output found so far
    copied,           \* number of shutil.copy calls that have succeeded
    pipeline_results, \* the dict built by run_complete_pipeline (<<>> before line 139)
    results,          \* what run_complete_pipeline returned to main (<<>> before)
    printed,          \* main printed the report
    report_file,      \* main wrote pipeline_report_<id>.txt
    exit_code,        \* <<>> while the process runs, <<code>> once it exited
    report,           \* the text generate_pipeline_report returned (<<>> before)
    caught,           \* the except clause of main that ran ("" while none has)
    other,            \* a second coordinator process in the same working
                      \* directory: its object and its progress (<<>> while none)
    agent             \* a stage program seen from the inside: its argv, its
                      \* position in main, what it read and returned (<<>> in
                      \* the specifications where the children are opaque)

vars == <<pc, argv, now, scripts, cwd, coordinator, call, results_dir, stage, procs,
          launched, agent_outputs, copied, pipeline_results, results, printed,
          report_file, exit_code, report, caught, other, agent>>

----------------------------------------------------------------------------
(* Bounds of the model *)

\* seconds that pass in one step of the clock
TickSeconds == 300
\* number of clock steps after the start of the process
MaxTicks == 2
\* files with an agent prefix left in the working directory by earlier runs
MaxStale == 1
\* files the child processes of one run write at most
MaxWrites == 3
\* stages the second coordinator completes while this one runs
MaxOtherStages == 1

(* Program constants *)

\* subprocess.run(..., timeout=600)
Timeout == 600
\* default of target_duration
DefaultDuration == 75

Stages == 1..3

----------------------------------------------------------------------------
(* Tables of the three copies of the per-stage code *)

AgentScript(k) ==
    CASE k = 1 -> "agent_1_comic_processor.py"
      [] k = 2 -> "agent_2_script_editor.py"
      [] k = 3 -> "agent_3_final_integrator.py"

required_agents == <<AgentScript(1), AgentScript(2), AgentScript(3)>>

StageName(k) ==
    CASE k = 1 -> "AGENT 1: Comic Processor & Script Creator"
      [] k = 2 -> "AGENT 2: Script Editor & Competitive Analyst"
      [] k = 3 -> "AGENT 3: Final Integration Specialist"

StageKey(k) ==
    CASE k = 1 -> "agent_1"
      [] k = 2 -> "agent_2"
      [] k = 3 -> "agent_3"

\* FailedAt with the label of the first copy pasted into the others
FailedAt_Pasted(k) == "Agent 1"

FailedAt(k) ==
    CASE k = 1 -> "Agent 1"
      [] k = 2 -> "Agent 2"
      [] k = 3 -> "Agent 3"

OutputPattern(k) ==
    CASE k = 1 -> "agent_1_output_"
      [] k = 2 -> "agent_2_output_"
      [] k = 3 -> "final_output_"

NotFoundError(k) ==
    CASE k = 1 -> "Could not find Agent 1 output file"
      [] k = 2 -> "Could not find Agent 2 output file"
      [] k = 3 -> "Could not find final output file"

\* ArchiveName with the second copy written over the first
ArchiveName_Pasted(k) ==
    CASE k = 1 -> "agent_1_output.json"
      [] k = 2 -> "agent_1_output.json"
      [] k = 3 -> "final_output.json"

ArchiveName(k) ==
    CASE k = 1 -> "agent_1_output.json"
      [] k = 2 -> "agent_2_output.json"
      [] k = 3 -> "final_output.json"

----------------------------------------------------------------------------
(* Paths.  A file name is its prefix, the rest of its stem and its         *)
(* extension; str.startswith and str.endswith look at the first and last.  *)

Path(prefix, stem, ext) == [prefix |-> prefix, stem |-> stem, ext |-> ext]

startswith(f, pattern) == f.prefix = pattern

endswith(f, suffix) == f.ext = suffix

lower(ext) ==
    CASE ext = ".CBZ" -> ".cbz"
      [] ext = ".CSV" -> ".csv"
      [] OTHER -> ext

\* the command-line values the model draws sys.argv from
CbrPaths == { Path("", "comic", ".cbr"), Path("", "comic", ".CBZ"),
              Path("", "notes", ".txt"), Path("", "missing", ".cbr") }

CompetitorPaths == { Path("", "competitors", ".csv"),
                     Path("", "competitors", ".txt"),
                     Path("", "missing", ".csv") }

ApiKeys == { <<"s", "k", "-", "x">>, <<"p", "k", "-", "x">>, <<"s", "k">> }

DurationArgs == { "60", "abc" }

\* the command lines of the model: too short, without and with a duration
CommandLines ==
    { <<"pipeline_coordinator.py">>,
      <<"pipeline_coordinator.py", Path("", "comic", ".cbr"),
        Path("", "competitors", ".csv")>> }
    \cup { <<"pipeline_coordinator.py", c, d, k>> :
             c \in CbrPaths \ {Path("", "comic", ".CBZ")},
             d \in CompetitorPaths, k \in ApiKeys }
    \cup { <<"pipeline_coordinator.py", Path("", "comic", ".CBZ"), d, k, t>> :
             d \in CompetitorPaths, k \in ApiKeys, t \in DurationArgs }

\* the input files that exist on disk (os.path.exists)
ExistingInputs == { p \in CbrPaths \cup CompetitorPaths : p.stem # "missing" }

exists(p) == p \in ExistingInputs

\* int(sys.argv[4]): <<n>> for a decimal literal, <<>> for ValueError
int(s) ==
    CASE s = "60" -> <<60>>
      [] s = "75" -> <<75>>
      [] OTHER -> <<>>

\* str(target_duration)
str(n) ==
    CASE n = 60 -> "60"
      [] n = 75 -> "75"
      [] OTHER -> "?"

\* openai_api_key.startswith('sk-')
startswith_sk(key) ==
    /\ Len(key) >= 3
    /\ SubSeq(key, 1, 3) = <<"s", "k", "-">>

----------------------------------------------------------------------------
(* dict helpers *)

\* d[k] = v
Put(d, k, v) == [x \in (DOMAIN d) \cup {k} |-> IF x = k THEN v ELSE d[x]]

\* k in d
Has(d, k) == k \in DOMAIN d

\* d.get(k)  (None is falsy: FALSE)
GetSuccess(d) == IF Has(d, "success") THEN d.success ELSE FALSE

----------------------------------------------------------------------------
(* validate_inputs *)

Issue(msg, path) == [msg |-> msg, path |-> path]

\* cbr_issues with the path left out of the message
cbr_issues_NoPath(cbr_path) ==
    IF ~exists(cbr_path)
    THEN <<[msg |-> "CBR file not found"]>>
    ELSE IF lower(cbr_path.ext) \notin {".cbr", ".cbz", ".zip"}
         THEN <<[msg |-> "Invalid file type. Expected .cbr, .cbz, or .zip"]>>
         ELSE <<>>

cbr_issues(cbr_path) ==
    IF ~exists(cbr_path)
    THEN <<Issue("CBR file not found", cbr_path)>>
    ELSE IF lower(cbr_path.ext) \notin {".cbr", ".cbz", ".zip"}
         THEN <<Issue("Invalid file type. Expected .cbr, .cbz, or .zip", cbr_path)>>
         ELSE <<>>

competitor_issues(competitor_data_path) ==
    IF ~exists(competitor_data_path)
    THEN <<Issue("Competitor data file not found", competitor_data_path)>>
    ELSE IF lower(competitor_data_path.ext) # ".csv"
         THEN <<Issue("Invalid competitor data format. Expected .csv", competitor_data_path)>>
         ELSE <<>>

RECURSIVE agent_issues(_, _)
agent_issues(agents, present) ==
    IF agents = <<>>
    THEN <<>>
    ELSE (IF Head(agents) \notin present
          THEN <<Issue("Agent script not found", Head(agents))>>
          ELSE <<>>) \o agent_issues(Tail(agents), present)

key_issues(openai_api_key) ==
    IF ~startswith_sk(openai_api_key)
    THEN <<[msg |-> "Invalid OpenAI API key format"]>>
    ELSE <<>>

\* validate_inputs that judges by the two input files only
validate_inputs_PathsOnly(self, cbr_path, present) ==
    LET paths == cbr_issues(cbr_path)
                 \o competitor_issues(self.competitor_data_path)
        issues == paths
                  \o agent_issues(required_agents, present)
                  \o key_issues(self.openai_api_key)
    IN  [valid |-> Len(paths) = 0, issues |-> issues]

\* validate_inputs that stops at the first group of checks that fails
validate_inputs_FailFast(self, cbr_path, present) ==
    LET issues ==
          IF cbr_issues(cbr_path) # <<>>
          THEN cbr_issues(cbr_path)
          ELSE IF competitor_issues(self.competitor_data_path) # <<>>
          THEN competitor_issues(self.competitor_data_path)
          ELSE IF agent_issues(required_agents, present) # <<>>
          THEN agent_issues(required_agents, present)
          ELSE key_issues(self.openai_api_key)
    IN  [valid |-> Len(issues) = 0, issues |-> issues]

validate_inputs(self, cbr_path, present) ==
    LET issues == cbr_issues(cbr_path)
                  \o competitor_issues(self.competitor_data_path)
                  \o agent_issues(required_agents, present)
                  \o key_issues(self.openai_api_key)
    IN  [valid |-> Len(issues) = 0, issues |-> issues]

----------------------------------------------------------------------------
(* run_agent: the dict it returns for each way subprocess.run can end *)

Returned(rc) == [kind |-> "returned", returncode |-> rc]

TimeoutExpired == [kind |-> "TimeoutExpired"]

Raised(e) == [kind |-> "Exception", e |-> e]

\* run_agent without the check of the return code
run_agent_NoCheck(ended, stage_name, duration) ==
    CASE ended.kind = "returned" ->
           [success |-> TRUE,
            stdout |-> "stdout", stderr |-> "stderr",
            duration |-> duration, stage |-> stage_name]
      [] ended.kind = "TimeoutExpired" ->
           [success |-> FALSE,
            error |-> <<"Agent timed out after 10 minutes">>,
            stage |-> stage_name]
      [] ended.kind = "Exception" ->
           [success |-> FALSE,
            error |-> <<"Failed to run agent", ended.e>>,
            stage |-> stage_name]

\* run_agent whose last handler reports what the timeout handler reports
run_agent_OneHandler(ended, stage_name, duration) ==
    CASE ended.kind = "returned" ->
           IF ended.returncode # 0
           THEN [success |-> FALSE,
                 error |-> <<"Agent failed with return code", ended.returncode>>,
                 stdout |-> "stdout", stderr |-> "stderr",
                 duration |-> duration]
           ELSE [success |-> TRUE,
                 stdout |-> "stdout", stderr |-> "stderr",
                 duration |-> duration, stage |-> stage_name]
      [] OTHER ->
           [success |-> FALSE,
            error |-> <<"Agent timed out after 10 minutes">>,
            stage |-> stage_name]

run_agent(ended, stage_name, duration) ==
    CASE ended.kind = "returned" ->
           IF ended.returncode # 0
           THEN [success |-> FALSE,
                 error |-> <<"Agent failed with return code", ended.returncode>>,
                 stdout |-> "stdout", stderr |-> "stderr",
                 duration |-> duration]
           ELSE [success |-> TRUE,
                 stdout |-> "stdout", stderr |-> "stderr",
                 duration |-> duration, stage |-> stage_name]
      [] ended.kind = "TimeoutExpired" ->
           [success |-> FALSE,
            error |-> <<"Agent timed out after 10 minutes">>,
            stage |-> stage_name]
      [] ended.kind = "Exception" ->
           [success |-> FALSE,
            error |-> <<"Failed to run agent", ended.e>>,
            stage |-> stage_name]

----------------------------------------------------------------------------
(* find_latest_output_file *)

\* the orders in which os.listdir can enumerate a set of directory entries
os_listdir(entries) ==
    { s \in [1..Cardinality(entries) -> entries] :
        \A f \in entries : \E i \in DOMAIN s : s[i] = f }

\* list.sort(key=getmtime, reverse=True): stable, newest first
insert_sorted(sorted, f) ==
    LET older == { i \in 1..Len(sorted) : sorted[i].mtime < f.mtime }
    IN  IF older = {}
        THEN Append(sorted, f)
        ELSE LET i == CHOOSE j \in older : \A m \in older : j <= m
             IN  SubSeq(sorted, 1, i - 1) \o <<f>> \o SubSeq(sorted, i, Len(sorted))

RECURSIVE sort_newest_first(_, _)
sort_newest_first(sorted, rest) ==
    IF rest = <<>>
    THEN sorted
    ELSE sort_newest_first(insert_sorted(sorted, Head(rest)), Tail(rest))

Matches(f, pattern) == startswith(f.name, pattern) /\ endswith(f.name, ".json")

\* find_latest_output_file without reverse=True: the oldest match is returned
find_latest_output_file_Oldest(listing, pattern) ==
    LET files == SelectSeq(listing, LAMBDA f : Matches(f, pattern))
    IN  IF files = <<>>
        THEN <<>>
        ELSE <<sort_newest_first(<<>>, files)[Len(files)].name>>

\* <<>> is None, <<name>> a file name
find_latest_output_file(listing, pattern) ==
    LET files == SelectSeq(listing, LAMBDA f : Matches(f, pattern))
    IN  IF files = <<>>
        THEN <<>>
        ELSE <<sort_newest_first(<<>>, files)[1].name>>

----------------------------------------------------------------------------
(* The working directory and the child processes *)

\* a file of the working directory: writer is the stage whose child wrote it
\* (0: left by an earlier run), run is 1 for a child of this coordinator
File(name, mtime, writer, complete) ==
    [name |-> name, mtime |-> mtime, writer |-> writer, complete |-> complete,
     run |-> IF writer = 0 THEN 0 ELSE 1]

\* a file written by the stage k child of the second coordinator (run 2)
OtherFile(name, mtime, k) == [File(name, mtime, k, TRUE) EXCEPT !.run = 2]

\* files an earlier, finished run may have left behind (writer 0)
StaleFiles ==
    { File(Path(OutputPattern(k), "old", ".json"), 0, 0, TRUE) : k \in Stages }
    \cup { File(Path(OutputPattern(1), "old", ".json"), TickSeconds, 0, TRUE) }

\* the files a child of stage k can write
ChildPaths(k) == { Path(OutputPattern(k), "new", e) : e \in {".json", ".md"} }

\* AgentArgs with the first argument of stage 1 pasted into stage 2: stage 2
\* is started on the source file, not on the located output of stage 1
AgentArgs_Pasted(k, self, c, outputs) ==
    CASE k = 1 -> <<c.cbr_path, self.openai_api_key, str(c.target_duration)>>
      [] k = 2 -> <<c.cbr_path, self.competitor_data_path, self.openai_api_key>>
      [] k = 3 -> <<outputs[2], self.openai_api_key, str(c.target_duration)>>

\* the argument list run_complete_pipeline hands to stage k
AgentArgs(k, self, c, outputs) ==
    CASE k = 1 -> <<c.cbr_path, self.openai_api_key, str(c.target_duration)>>
      [] k = 2 -> <<outputs[1], self.competitor_data_path, self.openai_api_key>>
      [] k = 3 -> <<outputs[2], self.openai_api_key, str(c.target_duration)>>

Proc(k, found, start, args) ==
    [stage |-> k, status |-> "running", returncode |-> <<>>,
     script_found |-> found, start_time |-> start, args |-> args]

\* Kill that leaves the child running
Kill_Leak(ps) == ps

\* process.kill() and process.wait() on the child subprocess.run waits on
Kill(ps) == [ps EXCEPT ![Len(ps)].status = IF @ = "running" THEN "killed" ELSE @]

\* the child subprocess.run is waiting on
child == procs[Len(procs)]

Waiting == pc = "wait" /\ procs # <<>>

----------------------------------------------------------------------------
Init ==
    /\ pc = "main"
    /\ argv \in CommandLines
    /\ now = TickSeconds
    /\ scripts \in SUBSET { AgentScript(k) : k \in Stages }
    /\ cwd \in { d \in SUBSET StaleFiles :
                    /\ Cardinality(d) <= MaxStale
                    /\ \A f, g \in d : f.name = g.name => f = g }
    /\ coordinator = <<>>
    /\ call = <<>>
    /\ results_dir = [exists |-> FALSE, files |-> {}]
    /\ stage = 0
    /\ procs = <<>>
    /\ launched = <<>>
    /\ agent_outputs = <<>>
    /\ copied = 0
    /\ pipeline_results = <<>>
    /\ results = <<>>
    /\ printed = FALSE
    /\ report_file = FALSE
    /\ exit_code = <<>>
    /\ report = <<>>
    /\ caught = ""
    /\ other = <<>>
    /\ agent = <<>>

----------------------------------------------------------------------------
(* main, up to the call of run_complete_pipeline *)

\* PipelineCoordinator.__init__ without the makedirs
NewCoordinator(openai_api_key, competitor_data_path, t) ==
    [openai_api_key |-> openai_api_key,
     competitor_data_path |-> competitor_data_path,
     pipeline_id |-> <<"pipeline_", t>>,
     results_dir |-> <<"results_", <<"pipeline_", t>>>>]

Exit(code) ==
    /\ pc' = "exit"
    /\ exit_code' = <<code>>

Main ==
    /\ pc = "main"
    /\ IF Len(argv) < 4
       THEN /\ Exit(1)
            /\ UNCHANGED <<coordinator, call, results_dir>>
       ELSE LET target_duration == IF Len(argv) > 4 THEN int(argv[5])
                                                   ELSE <<DefaultDuration>>
            IN  IF target_duration = <<>>
                THEN \* ValueError, not caught
                     /\ Exit(1)
                     /\ UNCHANGED <<coordinator, call, results_dir>>
                ELSE \E makedirs_ok \in BOOLEAN :
                       IF makedirs_ok
                       THEN /\ coordinator' = NewCoordinator(argv[4], argv[3], now)
                            /\ results_dir' = [results_dir EXCEPT !.exists = TRUE]
                            /\ call' = [cbr_path |-> argv[2],
                                        target_duration |-> target_duration[1]]
                            /\ pc' = "validate"
                            /\ UNCHANGED exit_code
                       ELSE \* OSError, not caught
                            /\ Exit(1)
                            /\ UNCHANGED <<coordinator, call, results_dir>>
    /\ UNCHANGED <<agent, report, caught, other, argv, now, scripts, cwd, stage, procs, launched,
                   agent_outputs, copied, pipeline_results, results, printed, report_file>>

----------------------------------------------------------------------------
(* run_complete_pipeline *)

\* return value: back in main, before the report
Return(value) ==
    /\ results' = value
    /\ pc' = "report"

ValidationFailed(validation) ==
    [success |-> FALSE, error |-> "Input validation failed",
     issues |-> validation.issues]

NewPipelineResults(self, c, pipeline_start) ==
    [pipeline_id |-> self.pipeline_id, start_time |-> pipeline_start,
     cbr_file |-> c.cbr_path, target_duration |-> c.target_duration,
     stages |-> <<>>]

Validate ==
    /\ pc = "validate"
    /\ LET validation == validate_inputs(coordinator, call.cbr_path, scripts)
       IN  IF ~validation.valid
           THEN /\ Return(ValidationFailed(validation))
                /\ UNCHANGED <<pipeline_results, stage>>
           ELSE /\ pipeline_results' = NewPipelineResults(coordinator, call, now)
                /\ stage' = 1
                /\ pc' = "run"
                /\ UNCHANGED results
    /\ UNCHANGED <<agent, report, caught, other, argv, now, scripts, cwd, coordinator, call, results_dir, procs,
                   launched, agent_outputs, copied, printed, report_file, exit_code>>

\* stages[key] = value on an insertion-ordered dict
SetItem(d, key, value) ==
    IF \E i \in DOMAIN d : d[i].key = key
    THEN [i \in DOMAIN d |-> IF d[i].key = key THEN [key |-> key, value |-> value]
                                               ELSE d[i]]
    ELSE Append(d, [key |-> key, value |-> value])

\* pipeline_results after a failed stage
StageFailed(pr, k) == Put(Put(pr, "success", FALSE), "failed_at", FailedAt(k))

\* Record without the early return: a failed stage is recorded and the run goes on
Record_NoReturn(k, stage_result) ==
    LET recorded == Put(pipeline_results, "stages",
                        SetItem(pipeline_results.stages, StageKey(k), stage_result))
    IN  /\ pipeline_results' = IF ~stage_result.success THEN StageFailed(recorded, k)
                                                         ELSE recorded
        /\ pc' = "locate"
        /\ UNCHANGED results

\* what follows the return of run_agent for stage k: record the result,
\* return the failed run or go on to look for the output file
Record(k, stage_result) ==
    LET recorded == Put(pipeline_results, "stages",
                        SetItem(pipeline_results.stages, StageKey(k), stage_result))
    IN  IF ~stage_result.success
        THEN /\ pipeline_results' = StageFailed(recorded, k)
             /\ Return(StageFailed(recorded, k))
        ELSE /\ pipeline_results' = recorded
             /\ pc' = "locate"
             /\ UNCHANGED results

\* run_agent up to subprocess.run: the child is spawned, or spawning raises
Launch ==
    /\ pc = "run"
    /\ launched' = Append(launched, StageKey(stage))
    /\ \E spawned \in BOOLEAN :
         IF spawned
         THEN /\ procs' = Append(procs,
                     Proc(stage, AgentScript(stage) \in scripts, now,
                          AgentArgs(stage, coordinator, call, agent_outputs)))
              /\ pc' = "wait"
              /\ UNCHANGED <<pipeline_results, results>>
         ELSE /\ Record(stage, run_agent(Raised("OSError"), StageName(stage), 0))
              /\ UNCHANGED procs
    /\ UNCHANGED <<agent, report, caught, other, argv, now, scripts, cwd, coordinator, call, results_dir, stage,
                   agent_outputs, copied, printed, report_file, exit_code>>

\* AgentReturn that does not wait for the child: a child still running is
\* taken to have succeeded
AgentReturn_NoWait ==
    /\ Waiting
    /\ child.status \in {"exited", "running"}
    /\ Record(stage, run_agent(Returned(IF child.status = "exited"
                                        THEN child.returncode[1] ELSE 0),
                               StageName(stage), now - child.start_time))
    /\ UNCHANGED <<agent, report, caught, other, argv, now, scripts, cwd, coordinator, call, results_dir, stage,
                   procs, launched, agent_outputs, copied, printed, report_file,
                   exit_code>>

\* subprocess.run returns: the child has exited within the timeout
AgentReturn ==
    /\ Waiting
    /\ child.status = "exited"
    /\ Record(stage, run_agent(Returned(child.returncode[1]), StageName(stage),
                               now - child.start_time))
    /\ UNCHANGED <<agent, report, caught, other, argv, now, scripts, cwd, coordinator, call, results_dir, stage,
                   procs, launched, agent_outputs, copied, printed, report_file, exit_code>>

\* AgentTimeout with a timeout of ten times 600 seconds
AgentTimeout_Late ==
    /\ Waiting
    /\ child.status = "running"
    /\ now - child.start_time >= 10 * Timeout
    /\ procs' = Kill(procs)
    /\ Record(stage, run_agent(TimeoutExpired, StageName(stage), 0))
    /\ UNCHANGED <<agent, report, caught, other, argv, now, scripts, cwd, coordinator, call,
                   results_dir, stage, launched, agent_outputs, copied, printed,
                   report_file, exit_code>>

\* subprocess.run kills the child and waits for it, then raises TimeoutExpired
AgentTimeout ==
    /\ Waiting
    /\ child.status = "running"
    /\ now - child.start_time >= Timeout
    /\ procs' = Kill(procs)
    /\ Record(stage, run_agent(TimeoutExpired, StageName(stage), 0))
    /\ UNCHANGED <<agent, report, caught, other, argv, now, scripts, cwd, coordinator, call, results_dir, stage,
                   launched, agent_outputs, copied, printed, report_file, exit_code>>

\* pipeline_results when no output file was found after stage k
OutputMissing(pr, k) == Put(Put(pr, "success", FALSE), "error", NotFoundError(k))

Locate ==
    /\ pc = "locate"
    /\ \E listing \in os_listdir({ f \in cwd : startswith(f.name, OutputPattern(stage)) }) :
         LET output == find_latest_output_file(listing, OutputPattern(stage))
         IN  IF output = <<>>
             THEN /\ pipeline_results' = OutputMissing(pipeline_results, stage)
                  /\ Return(OutputMissing(pipeline_results, stage))
                  /\ UNCHANGED <<agent_outputs, stage>>
             ELSE /\ agent_outputs' = Append(agent_outputs, output[1])
                  /\ IF stage < 3
                     THEN stage' = stage + 1 /\ pc' = "run"
                     ELSE stage' = stage /\ pc' = "archive"
                  /\ UNCHANGED <<pipeline_results, results>>
    /\ UNCHANGED <<agent, report, caught, other, argv, now, scripts, cwd, coordinator, call, results_dir, procs,
                   launched, copied, printed, report_file, exit_code>>

\* the files shutil.copy has put into the results directory after n copies
Copied(files, outputs, n) ==
    { f \in files : \A i \in 1..n : f.name # ArchiveName(i) }
    \cup { [name |-> ArchiveName(i), source |-> outputs[i]] : i \in 1..n }

Succeeded(pr, self, outputs, pipeline_end) ==
    Put(Put(Put(Put(Put(pr, "success", TRUE),
                    "end_time", pipeline_end),
                "total_duration", pipeline_end - pr.start_time),
            "final_output_file", outputs[3]),
        "results_directory", self.results_dir)

\* Archive that moves the output files into the results directory
Archive_Move ==
    /\ pc = "archive"
    /\ \E n \in 0..3 :
         /\ results_dir' = [results_dir EXCEPT !.files = Copied(@, agent_outputs, n)]
         /\ copied' = n
         /\ cwd' = { f \in cwd : \A i \in 1..n : f.name # agent_outputs[i] }
    /\ pipeline_results' = Succeeded(pipeline_results, coordinator, agent_outputs, now)
    /\ Return(Succeeded(pipeline_results, coordinator, agent_outputs, now))
    /\ UNCHANGED <<agent, report, caught, other, argv, now, scripts, coordinator, call, stage,
                   procs, launched, agent_outputs, printed, report_file, exit_code>>

\* Archive in which a copy that raises fails the run
Archive_Fatal ==
    /\ pc = "archive"
    /\ \E n \in 0..3 :
         /\ results_dir' = [results_dir EXCEPT !.files = Copied(@, agent_outputs, n)]
         /\ copied' = n
         /\ LET done == IF n = 3
                        THEN Succeeded(pipeline_results, coordinator, agent_outputs, now)
                        ELSE Put(Put(pipeline_results, "success", FALSE),
                                 "error", "Could not copy results")
            IN  /\ pipeline_results' = done
                /\ Return(done)
    /\ UNCHANGED <<agent, report, caught, other, argv, now, scripts, cwd, coordinator, call, stage, procs,
                   launched, agent_outputs, printed, report_file, exit_code>>

\* the three copies (the first that raises ends the copying), then the update
Archive ==
    /\ pc = "archive"
    /\ \E n \in 0..3 :
         /\ results_dir' = [results_dir EXCEPT !.files = Copied(@, agent_outputs, n)]
         /\ copied' = n
    /\ pipeline_results' = Succeeded(pipeline_results, coordinator, agent_outputs, now)
    /\ Return(Succeeded(pipeline_results, coordinator, agent_outputs, now))
    /\ UNCHANGED <<agent, report, caught, other, argv, now, scripts, cwd, coordinator, call, stage, procs,
                   launched, agent_outputs, printed, report_file, exit_code>>

----------------------------------------------------------------------------
(* main, after run_complete_pipeline *)

\* d.get(k, default)
Get(d, k, default) == IF Has(d, k) THEN d[k] ELSE default

\* the lines of the STAGE BREAKDOWN, in the order of the stages dict
RECURSIVE stage_lines(_)
stage_lines(stages) ==
    IF stages = <<>>
    THEN <<>>
    ELSE LET stage_name == Head(stages).key
             stage_data == Head(stages).value
             status == IF GetSuccess(stage_data) THEN "SUCCESS" ELSE "FAILED"
             duration == Get(stage_data, "duration", 0)
         IN  <<<<"Stage", stage_name, status, duration>>>>
             \o (IF ~GetSuccess(stage_data) /\ Has(stage_data, "error")
                 THEN <<<<"Stage Error", stage_data.error>>>>
                 ELSE <<>>)
             \o stage_lines(Tail(stages))

\* {d.get(k, 'Unknown')} in an f-string: the value formatted, or the text
\* Unknown
Formatted(d, k) == IF Has(d, k) THEN <<"str", d[k]>> ELSE <<"Unknown">>

\* the report text, one tuple for each line that carries a value
generate_pipeline_report(pr) ==
    <<<<"Pipeline ID", Formatted(pr, "pipeline_id")>>,
      <<"Source CBR", Formatted(pr, "cbr_file")>>,
      <<"Target Duration", Formatted(pr, "target_duration")>>,
      <<"Status", IF GetSuccess(pr) THEN "SUCCESS" ELSE "FAILED">>,
      <<"Total Duration", Get(pr, "total_duration", 0)>>>>
    \o (IF ~GetSuccess(pr)
        THEN <<<<"Failed At", Get(pr, "failed_at", "Unknown")>>>>
             \o (IF Has(pr, "error") THEN <<<<"Error", pr.error>>>> ELSE <<>>)
        ELSE <<>>)
    \o <<<<"STAGE BREAKDOWN">>>>
    \o stage_lines(Get(pr, "stages", <<>>))
    \o (IF GetSuccess(pr)
        THEN <<<<"FINAL OUTPUT", Get(pr, "final_output_file", "Not found")>>,
               <<"RESULTS SAVED TO", Get(pr, "results_directory", "Not saved")>>>>
        ELSE <<>>)

\* Report that marks the returned run failed when the report file cannot be
\* written
Report_MarksFailed ==
    /\ pc = "report"
    /\ report' = generate_pipeline_report(results)
    /\ printed' = TRUE
    /\ \E written \in BOOLEAN :
         IF written
         THEN /\ report_file' = TRUE
              /\ Exit(IF GetSuccess(results) THEN 0 ELSE 1)
              /\ UNCHANGED <<caught, results>>
         ELSE /\ report_file' = FALSE
              /\ caught' = "Exception"
              /\ results' = Put(results, "success", FALSE)
              /\ Exit(1)
    /\ UNCHANGED <<agent, other, argv, now, scripts, cwd, coordinator, call, results_dir, stage,
                   procs, launched, agent_outputs, copied, pipeline_results>>

\* Report that exits with 0 whatever the run returned
Report_ExitZero ==
    /\ pc = "report"
    /\ report' = generate_pipeline_report(results)
    /\ printed' = TRUE
    /\ \E written \in BOOLEAN :
         IF written
         THEN /\ report_file' = TRUE
              /\ Exit(0)
              /\ UNCHANGED caught
         ELSE /\ report_file' = FALSE
              /\ caught' = "Exception"
              /\ Exit(1)
    /\ UNCHANGED <<agent, other, argv, now, scripts, cwd, coordinator, call, results_dir, stage,
                   procs, launched, agent_outputs, copied, pipeline_results, results>>

\* the report is generated and printed, then written to the report file
Report ==
    /\ pc = "report"
    /\ report' = generate_pipeline_report(results)
    /\ printed' = TRUE
    /\ \E written \in BOOLEAN :
         IF written
         THEN /\ report_file' = TRUE
              /\ Exit(IF GetSuccess(results) THEN 0 ELSE 1)
              /\ UNCHANGED caught
         ELSE \* open or write raised: except Exception
              /\ report_file' = FALSE
              /\ caught' = "Exception"
              /\ Exit(1)
    /\ UNCHANGED <<agent, other, argv, now, scripts, cwd, coordinator, call, results_dir, stage,
                   procs, launched, agent_outputs, copied, pipeline_results, results>>

\* Interrupt in which the child is not killed before the exception is raised
Interrupt_Orphan ==
    /\ Waiting
    /\ caught' = "KeyboardInterrupt"
    /\ Exit(130)
    /\ UNCHANGED <<agent, report, other, argv, now, scripts, cwd, coordinator, call, results_dir,
                   stage, procs, launched, agent_outputs, copied, pipeline_results,
                   results, printed, report_file>>

\* KeyboardInterrupt during the wait: subprocess.run kills the child, the
\* exception passes through run_agent and is caught in main
Interrupt ==
    /\ Waiting
    /\ procs' = Kill(procs)
    /\ caught' = "KeyboardInterrupt"
    /\ Exit(130)
    /\ UNCHANGED <<agent, report, other, argv, now, scripts, cwd, coordinator, call, results_dir, stage,
                   launched, agent_outputs, copied, pipeline_results, results, printed,
                   report_file>>

\* an exception raised inside run_complete_pipeline outside the try blocks of
\* run_agent, find_latest_output_file and the copies (a print that raises):
\* main catches it with except Exception, prints the message and exits with 1
CoordinatorError ==
    /\ pc \in {"validate", "locate"}
    /\ caught' = "Exception"
    /\ Exit(1)
    /\ UNCHANGED <<agent, report, other, argv, now, scripts, cwd, coordinator, call, results_dir,
                   stage, procs, launched, agent_outputs, copied, pipeline_results,
                   results, printed, report_file>>

----------------------------------------------------------------------------
(* The environment: the clock, the child process, the script files *)

\* time passes while the coordinator is blocked on a running child
Tick ==
    /\ Waiting
    /\ child.status = "running"
    /\ now < TickSeconds * (1 + MaxTicks)
    /\ now' = now + TickSeconds
    /\ UNCHANGED <<agent, report, caught, other, pc, argv, scripts, cwd, coordinator, call, results_dir, stage,
                   procs, launched, agent_outputs, copied, pipeline_results, results,
                   printed, report_file, exit_code>>

Running == Waiting /\ child.status = "running" /\ child.script_found

\* the child opens a file for writing
ChildWrite ==
    /\ Running
    /\ Cardinality({ f \in cwd : f.run = 1 }) < MaxWrites
    /\ \A f \in cwd : f.complete
    /\ \E p \in ChildPaths(stage) :
         /\ \A f \in cwd : f.name # p
         /\ cwd' = cwd \cup { File(p, now, stage, FALSE) }
    /\ UNCHANGED <<agent, report, caught, other, pc, argv, now, scripts, coordinator, call, results_dir, stage,
                   procs, launched, agent_outputs, copied, pipeline_results, results, printed,
                   report_file, exit_code>>

\* the child writes the rest of the file and closes it
ChildClose ==
    /\ Running
    /\ \E f \in cwd :
         /\ ~f.complete
         /\ cwd' = (cwd \ {f}) \cup { File(f.name, now, f.writer, TRUE) }
    /\ UNCHANGED <<agent, report, caught, other, pc, argv, now, scripts, coordinator, call, results_dir, stage,
                   procs, launched, agent_outputs, copied, pipeline_results, results,
                   printed, report_file, exit_code>>

\* the child exits by itself; the interpreter exits with 2 when it cannot
\* open the script; a child that exits with 0 has closed its files
ChildExit ==
    /\ Waiting
    /\ child.status = "running"
    /\ now - child.start_time < Timeout
    /\ \E rc \in 0..2 :
         /\ child.script_found => rc \in {0, 1}
         /\ ~child.script_found => rc = 2
         /\ rc = 0 => \A f \in cwd : f.complete
         /\ procs' = [procs EXCEPT ![Len(procs)].status = "exited",
                                   ![Len(procs)].returncode = <<rc>>]
    /\ UNCHANGED <<agent, report, caught, other, pc, argv, now, scripts, cwd, coordinator, call, results_dir,
                   stage, launched, agent_outputs, copied, pipeline_results, results,
                   printed, report_file, exit_code>>

\* the script of the stage about to run is removed after validation
RemoveScript ==
    /\ pc = "run"
    /\ AgentScript(stage) \in scripts
    /\ scripts' = scripts \ { AgentScript(stage) }
    /\ UNCHANGED <<agent, report, caught, other, pc, argv, now, cwd, coordinator, call, results_dir, stage,
                   procs, launched, agent_outputs, copied, pipeline_results, results,
                   printed, report_file, exit_code>>

----------------------------------------------------------------------------
Next ==
    \/ Main
    \/ Validate
    \/ Launch
    \/ AgentReturn
    \/ AgentTimeout
    \/ Locate
    \/ Archive
    \/ Report
    \/ Interrupt
    \/ CoordinatorError
    \/ Tick
    \/ ChildWrite
    \/ ChildClose
    \/ ChildExit
    \/ RemoveScript

Spec == Init /\ [][Next]_vars

----------------------------------------------------------------------------
(* The run under fair scheduling *)

\* the steps of the coordinator process itself: a sequential program takes
\* its next step whenever it has one
CoordinatorStep ==
    \/ Main
    \/ Validate
    \/ Launch
    \/ AgentReturn
    \/ AgentTimeout
    \/ Locate
    \/ Archive
    \/ Report

\* a command line that passes validation or one whose source file is
\* missing, all scripts present, at most one file left by an earlier run
InitLive ==
    /\ Init
    /\ argv \in { <<"pipeline_coordinator.py", c, Path("", "competitors", ".csv"),
                    <<"s", "k", "-", "x">>>> :
                    c \in {Path("", "comic", ".cbr"), Path("", "missing", ".cbr")} }
    /\ scripts = { AgentScript(k) : k \in Stages }
    /\ cwd \subseteq { File(Path(OutputPattern(1), "old", ".json"), 0, 0, TRUE) }

\* the coordinator goes on whenever it can, and while a child runs either
\* the child exits or time passes
SpecLive ==
    /\ InitLive
    /\ [][Next]_vars
    /\ WF_vars(CoordinatorStep)
    /\ WF_vars(Tick \/ ChildExit)

----------------------------------------------------------------------------
(* A second coordinator process started in the same working directory *)

\* the second process, started with the same command line, constructs its
\* PipelineCoordinator
OtherStart ==
    /\ other = <<>>
    /\ pc \notin {"report", "exit"}
    /\ Len(argv) >= 4
    /\ other' = [self |-> NewCoordinator(argv[4], argv[3], now), stage |-> 1]
    /\ UNCHANGED <<agent, pc, argv, now, scripts, cwd, coordinator, call, results_dir, stage,
                   procs, launched, agent_outputs, copied, pipeline_results, results,
                   printed, report_file, exit_code, report, caught>>

\* the stage child of the second coordinator writes its output file and exits
\* with 0; the second coordinator goes on to its next stage
OtherStage ==
    /\ other # <<>>
    /\ pc \notin {"report", "exit"}
    /\ other.stage \in Stages
    /\ other.stage <= MaxOtherStages
    /\ LET p == Path(OutputPattern(other.stage), "other", ".json")
       IN  /\ \A f \in cwd : f.name # p
           /\ cwd' = cwd \cup { OtherFile(p, now, other.stage) }
    /\ other' = [other EXCEPT !.stage = @ + 1]
    /\ UNCHANGED <<agent, pc, argv, now, scripts, coordinator, call, results_dir, stage,
                   procs, launched, agent_outputs, copied, pipeline_results, results,
                   printed, report_file, exit_code, report, caught>>

\* one command line that passes validation, an empty working directory
InitTwoRuns ==
    /\ Init
    /\ argv = <<"pipeline_coordinator.py", Path("", "comic", ".cbr"),
                Path("", "competitors", ".csv"), <<"s", "k", "-", "x">>>>
    /\ scripts = { AgentScript(k) : k \in Stages }
    /\ cwd = {}

NextTwoRuns == Next \/ OtherStart \/ OtherStage

SpecTwoRuns == InitTwoRuns /\ [][NextTwoRuns]_vars

----------------------------------------------------------------------------
(* The three stage programs, each from its start to its exit.  argv[1] is *)
(* the script (sys.argv[0]), so sys.argv[i] is argv[i + 1].               *)

\* the variables of the coordinator, which a stage program never touches
coordinator_vars ==
    <<pc, argv, now, scripts, coordinator, call, results_dir, stage, procs, launched,
      agent_outputs, copied, pipeline_results, results, printed, report_file,
      exit_code, report, caught, other>>

\* the output files of stages 1 and 2 as the coordinator located them
LocatedOutputs == <<Path(OutputPattern(1), "new", ".json"),
                    Path(OutputPattern(2), "new", ".json")>>

\* a stage program started by run_agent: cmd = [sys.executable, script] + args
CoordinatorLaunches ==
    { [k |-> k, launcher |-> "coordinator",
       argv |-> <<AgentScript(k)>>
                \o AgentArgs(k, NewCoordinator(<<"s", "k", "-", "x">>, d, TickSeconds),
                             [cbr_path |-> c, target_duration |-> t], LocatedOutputs)] :
        k \in Stages, d \in CompetitorPaths,
        c \in {Path("", "comic", ".cbr"), Path("", "comic", ".CBZ")}, t \in {60, 75} }

\* a stage program started by hand as its usage message says
ManualLaunches ==
    { [k |-> 1, launcher |-> "manual", argv |-> a] :
        a \in { <<AgentScript(1)>>,
                <<AgentScript(1), Path("", "comic", ".cbr"), <<"s", "k", "-", "x">>>>,
                <<AgentScript(1), Path("", "comic", ".cbr"), <<"s", "k", "-", "x">>, "abc">> } }
    \cup
    { [k |-> 2, launcher |-> "manual",
       argv |-> <<AgentScript(2), LocatedOutputs[1], Path("", "competitors", ".csv"),
                  <<"s", "k", "-", "x">>, Path(OutputPattern(2), "new", ".json")>>] }
    \cup
    { [k |-> 3, launcher |-> "manual", argv |-> a] :
        a \in { <<AgentScript(3), LocatedOutputs[2], <<"s", "k", "-", "x">>,
                  Path(OutputPattern(3), "new", ".json"),
                  Path(OutputPattern(3), "new", ".md")>>,
                <<AgentScript(3), LocatedOutputs[2], <<"s", "k", "-", "x">>,
                  Path(OutputPattern(3), "new", ".json"),
                  Path(OutputPattern(3), "new", ".md"), "60">> } }

\* what the processing function of each stage program can return: agent 1
\* returns a dict with status and without error, or {"error": ...} without
\* status; agents 2 and 3 return a result or {"error": ...}
Agent1Results ==
    { [status |-> "success"], [status |-> "success_with_fallback_script"],
      [error |-> "Processing failed"] }

ReviewResults == { [review |-> "done"], [error |-> "review failed"] }

\* os.path.exists on a file of the working directory
path_exists(p) == \E f \in cwd : f.name = p

\* open(path, 'w') and the writes: the file is created or replaced
Written(files, path, k) ==
    { f \in files : f.name # path } \cup { File(path, now, k, TRUE) }

\* the process of the stage program ends
AgentExit(code, fields) ==
    agent' = [x \in DOMAIN agent \cup DOMAIN fields \cup {"pc", "exit_code"} |->
                CASE x = "pc" -> "exit"
                  [] x = "exit_code" -> <<code>>
                  [] x \in DOMAIN fields -> fields[x]
                  [] OTHER -> agent[x]]

\* the first file name of the argument check passed: main goes on into try
AgentTry(read) ==
    agent' = [agent EXCEPT !.pc = "try", !.read = read]

\* agent_1_comic_processor.main up to the try
Agent1Main ==
    /\ agent # <<>> /\ agent.k = 1 /\ agent.pc = "main"
    /\ LET a == agent.argv
       IN  IF Len(a) < 3
           THEN AgentExit(1, [usage |-> TRUE])
           ELSE LET target_duration == IF Len(a) > 3 THEN int(a[4])
                                                     ELSE <<DefaultDuration>>
                IN  IF target_duration = <<>>
                    THEN \* ValueError, not caught
                         AgentExit(1, [raised |-> TRUE])
                    ELSE AgentTry([input |-> a[2], key |-> a[3],
                                   duration |-> target_duration[1]])
    /\ UNCHANGED <<cwd, coordinator_vars>>

\* the try of agent_1_comic_processor.main: the processing, the test of the
\* result, the .md file; except Exception prints and main returns
Agent1Try ==
    /\ agent # <<>> /\ agent.k = 1 /\ agent.pc = "try"
    /\ \E result \in Agent1Results, opened \in BOOLEAN :
         IF Has(result, "error") /\ ~Has(result, "status")
         THEN \* result["status"] raises KeyError: caught, main returns
              /\ AgentExit(0, [result |-> result, raised |-> TRUE])
              /\ UNCHANGED cwd
         ELSE IF Has(result, "error") /\ result.status # "success_with_fallback_script"
         THEN /\ AgentExit(1, [result |-> result])
              /\ UNCHANGED cwd
         ELSE IF opened
         THEN /\ cwd' = Written(cwd, Path(OutputPattern(1), "new", ".md"), 1)
              /\ AgentExit(0, [result |-> result])
         ELSE \* open or write raised: caught, main returns
              /\ AgentExit(0, [result |-> result, raised |-> TRUE])
              /\ UNCHANGED cwd
    /\ UNCHANGED coordinator_vars

\* agent_2_script_editor.main up to the try
Agent2Main ==
    /\ agent # <<>> /\ agent.k = 2 /\ agent.pc = "main"
    /\ LET a == agent.argv
       IN  IF Len(a) < 5
           THEN AgentExit(1, [usage |-> TRUE])
           ELSE IF ~path_exists(a[2])
           THEN AgentExit(1, [read |-> [input |-> a[2], competitor |-> a[3],
                                        key |-> a[4], output_json |-> a[5]]])
           ELSE AgentTry([input |-> a[2], competitor |-> a[3], key |-> a[4],
                          output_json |-> a[5]])
    /\ UNCHANGED <<cwd, coordinator_vars>>

\* the try of agent_2_script_editor.main: an error result is saved and the
\* program exits with 1; a review is saved as JSON (and, if possible, as a
\* Markdown summary); except Exception saves the error and exits with 1
Agent2Try ==
    /\ agent # <<>> /\ agent.k = 2 /\ agent.pc = "try"
    /\ \E result \in ReviewResults, saved \in BOOLEAN, summary \in BOOLEAN :
         IF ~saved
         THEN \* open or json.dump raised
              /\ AgentExit(1, [result |-> result, raised |-> TRUE])
              /\ UNCHANGED cwd
         ELSE IF Has(result, "error")
         THEN /\ cwd' = Written(cwd, agent.read.output_json, 2)
              /\ AgentExit(1, [result |-> result])
         ELSE /\ cwd' = IF summary
                        THEN Written(Written(cwd, agent.read.output_json, 2),
                                     Path("agent_2_summary_", "new", ".md"), 2)
                        ELSE Written(cwd, agent.read.output_json, 2)
              /\ AgentExit(0, [result |-> result])
    /\ UNCHANGED coordinator_vars

\* agent_3_final_integrator.main up to the try
Agent3Main ==
    /\ agent # <<>> /\ agent.k = 3 /\ agent.pc = "main"
    /\ LET a == agent.argv
       IN  IF Len(a) < 5
           THEN AgentExit(1, [usage |-> TRUE])
           ELSE LET target_duration == IF Len(a) > 5 THEN int(a[6])
                                                     ELSE <<DefaultDuration>>
                    read == [input |-> a[2], key |-> a[3], output_json |-> a[4],
                             output_md |-> a[5],
                             duration |-> IF target_duration = <<>>
                                          THEN <<>> ELSE target_duration[1]]
                IN  IF target_duration = <<>>
                    THEN AgentExit(1, [raised |-> TRUE])
                    ELSE IF ~path_exists(a[2])
                    THEN AgentExit(1, [read |-> read])
                    ELSE AgentTry(read)
    /\ UNCHANGED <<cwd, coordinator_vars>>

\* the try of agent_3_final_integrator.main: an error result is saved and
\* the program exits with 1; a result is saved as JSON and as Markdown; if
\* the Markdown cannot be written, except Exception overwrites the JSON with
\* the error and exits with 1
Agent3Try ==
    /\ agent # <<>> /\ agent.k = 3 /\ agent.pc = "try"
    /\ \E result \in ReviewResults, saved \in BOOLEAN, markdown \in BOOLEAN :
         IF ~saved
         THEN /\ AgentExit(1, [result |-> result, raised |-> TRUE])
              /\ UNCHANGED cwd
         ELSE IF Has(result, "error")
         THEN /\ cwd' = Written(cwd, agent.read.output_json, 3)
              /\ AgentExit(1, [result |-> result])
         ELSE IF ~markdown
         THEN /\ cwd' = Written(cwd, agent.read.output_json, 3)
              /\ AgentExit(1, [result |-> result, raised |-> TRUE])
         ELSE /\ cwd' = Written(Written(cwd, agent.read.output_json, 3),
                                agent.read.output_md, 3)
              /\ AgentExit(0, [result |-> result])
    /\ UNCHANGED coordinator_vars

\* one stage program is started, by the coordinator or by hand, in a working
\* directory that may hold the output files of the earlier stages
InitAgents ==
    /\ \E l \in CoordinatorLaunches \cup ManualLaunches :
         agent = [k |-> l.k, launcher |-> l.launcher, argv |-> l.argv, pc |-> "main",
                  read |-> <<>>, result |-> <<>>, usage |-> FALSE, raised |-> FALSE,
                  exit_code |-> <<>>]
    /\ cwd \in SUBSET { File(LocatedOutputs[i], 0, 0, TRUE) : i \in 1..2 }
    /\ pc = "main"
    /\ argv = <<"pipeline_coordinator.py">>
    /\ now = TickSeconds
    /\ scripts = { AgentScript(k) : k \in Stages }
    /\ coordinator = <<>>
    /\ call = <<>>
    /\ results_dir = [exists |-> FALSE, files |-> {}]
    /\ stage = 0
    /\ procs = <<>>
    /\ launched = <<>>
    /\ agent_outputs = <<>>
    /\ copied = 0
    /\ pipeline_results = <<>>
    /\ results = <<>>
    /\ printed = FALSE
    /\ report_file = FALSE
    /\ exit_code = <<>>
    /\ report = <<>>
    /\ caught = ""
    /\ other = <<>>

NextAgents ==
    \/ Agent1Main
    \/ Agent1Try
    \/ Agent2Main
    \/ Agent2Try
    \/ Agent3Main
    \/ Agent3Try

SpecAgents == InitAgents /\ [][NextAgents]_vars

----------------------------------------------------------------------------
(* Notions the properties are stated in *)

\* run_complete_pipeline has returned its dict to main
HasReturned == pc \in {"report", "exit"} /\ DOMAIN results # {}

\* the stage results recorded so far, in insertion order
Recorded == IF Has(pipeline_results, "stages") THEN pipeline_results.stages ELSE <<>>

\* the stage results of the returned dict
ReturnedStages == IF Has(results, "stages") THEN results.stages ELSE <<>>

Keys(d) == [i \in DOMAIN d |-> d[i].key]

FixedSequence == <<"agent_1", "agent_2", "agent_3">>

FailedAtLabels == <<"Agent 1", "Agent 2", "Agent 3">>

NotFoundTexts == <<"Could not find Agent 1 output file",
                   "Could not find Agent 2 output file",
                   "Could not find final output file">>

ArchiveNames == <<"agent_1_output.json", "agent_2_output.json", "final_output.json">>

\* a child process was spawned for stage k
Spawned(k) == \E i \in DOMAIN procs : procs[i].stage = k

TheProc(k) == procs[CHOOSE i \in DOMAIN procs : procs[i].stage = k]

\* the child of stage k exited by itself with code 0
ExitedZero(k) ==
    /\ Spawned(k)
    /\ TheProc(k).status = "exited"
    /\ TheProc(k).returncode = <<0>>

\* run_agent has returned for stage k, and the stage failed in the executor:
\* the child was not spawned, was killed at the timeout, or exited non-zero
FailedInExecutor(k) ==
    /\ Len(Recorded) >= k
    /\ ~ExitedZero(k)

\* stage k exited 0 and the run returned without an output file for it
ArtifactMissing(k) ==
    /\ HasReturned
    /\ ExitedZero(k)
    /\ Len(agent_outputs) = k - 1

\* all three stages exited 0 and an output file was found for each
AllThreeFound ==
    /\ \A k \in Stages : ExitedZero(k)
    /\ Len(agent_outputs) = 3

----------------------------------------------------------------------------
(* C1: in every run the stages launched form a prefix of agent_1, agent_2, *)
(* agent_3, so each is launched at most once; a stage is launched only     *)
(* after every earlier stage succeeded and its output file was found; and  *)
(* the stage results recorded are exactly the stages launched (all of them *)
(* once run_complete_pipeline has returned, all but the one being waited   *)
(* for before).                                                            *)
C1_LaunchedPrefixRecorded ==
    /\ Len(launched) <= 3
    /\ launched = SubSeq(FixedSequence, 1, Len(launched))
    /\ Len(Recorded) <= Len(launched)
    /\ Len(Recorded) >= Len(launched) - 1
    /\ Keys(Recorded) = SubSeq(launched, 1, Len(Recorded))
    /\ \A k \in 1..(Len(launched) - 1) :
         /\ Recorded[k].value.success
         /\ Len(agent_outputs) >= k
    /\ HasReturned => Keys(ReturnedStages) = launched

C1_Witness ==
    /\ HasReturned
    /\ Len(launched) = 2
    /\ ~ReturnedStages[2].value.success

(* C2: if stage k fails in the Stage Executor (non-zero exit, timeout or   *)
(* launch failure), the returned run is failed, its failed_at names stage  *)
(* k, and it holds no stage result for stage k+1 or later.                 *)
C2_ExecutorFailureStopsRun ==
    \A k \in Stages :
        (HasReturned /\ FailedInExecutor(k)) =>
            /\ results.success = FALSE
            /\ Has(results, "failed_at")
            /\ results.failed_at = FailedAtLabels[k]
            /\ Len(results.stages) = k
            /\ results.stages[k].key = FixedSequence[k]

C2_Witness ==
    /\ HasReturned
    /\ FailedInExecutor(2)
    /\ Spawned(2)
    /\ TheProc(2).status = "killed"

(* C3 as claimed: if stage k exits 0 but no file with its prefix is found, *)
(* the run is failed, failed_at names stage k, the error reflects the      *)
(* missing output file and no later stage is attempted.                    *)
C3_ArtifactMissingNamesStage ==
    \A k \in Stages :
        ArtifactMissing(k) =>
            /\ results.success = FALSE
            /\ Has(results, "failed_at")
            /\ results.failed_at = FailedAtLabels[k]
            /\ Has(results, "error")
            /\ results.error = NotFoundTexts[k]
            /\ Len(launched) = k

(* C4 as claimed: in every returned result failed_at is set if and only if *)
(* the run is failed.                                                      *)
C4_FailedAtIffFailed ==
    HasReturned => (Has(results, "failed_at") <=> results.success = FALSE)

(* C5: when validation reports an issue, the issue of every path that      *)
(* failed its check mentions that path, no stage subprocess is launched,   *)
(* the run is reported failed and the process exits with a non-zero code.  *)
C5_ValidationFailureStopsRun ==
    (HasReturned /\ Has(results, "issues")) =>
        /\ Len(results.issues) > 0
        /\ launched = <<>>
        /\ procs = <<>>
        /\ results.success = FALSE
        /\ pc = "exit" => exit_code # <<>> /\ exit_code[1] # 0
        /\ ~exists(call.cbr_path) =>
             \E i \in DOMAIN results.issues :
                /\ results.issues[i].msg = "CBR file not found"
                /\ Has(results.issues[i], "path")
                /\ results.issues[i].path = call.cbr_path
        /\ ~exists(coordinator.competitor_data_path) =>
             \E i \in DOMAIN results.issues :
                /\ results.issues[i].msg = "Competitor data file not found"
                /\ Has(results.issues[i], "path")
                /\ results.issues[i].path = coordinator.competitor_data_path
        /\ \A k \in Stages :
             AgentScript(k) \notin scripts =>
                \E i \in DOMAIN results.issues :
                   /\ results.issues[i].msg = "Agent script not found"
                   /\ Has(results.issues[i], "path")
                   /\ results.issues[i].path = AgentScript(k)

C5_Witness ==
    /\ pc = "exit"
    /\ Has(results, "issues")
    /\ ~exists(call.cbr_path)
    /\ exit_code = <<1>>

(* C6 as claimed: a run in which all three stages exit 0 and leave an      *)
(* output file is succeeded and its results directory holds exactly the    *)
(* three archived files.                                                   *)
C6_ThreeFilesArchived ==
    (HasReturned /\ AllThreeFound) =>
        /\ results.success = TRUE
        /\ { f.name : f \in results_dir.files } = { ArchiveNames[i] : i \in 1..3 }
        /\ Cardinality(results_dir.files) = 3

(* C6 amended: such a run is succeeded, and its results directory holds    *)
(* exactly the copies made before the first copy that raised, each a copy  *)
(* of the output file found for its stage: all three of agent_1_output.json, *)
(* agent_2_output.json and final_output.json when no copy raised.          *)
C6_CopiedFilesArchived ==
    (HasReturned /\ AllThreeFound) =>
        /\ results.success = TRUE
        /\ results_dir.files =
             { [name |-> ArchiveNames[i], source |-> agent_outputs[i]] : i \in 1..copied }
        /\ copied = 3 => Cardinality(results_dir.files) = 3

C6_Witness ==
    /\ pc = "exit"
    /\ HasReturned
    /\ AllThreeFound
    /\ copied = 3
    /\ exit_code = <<0>>

(* C7: at most one stage subprocess is running at any moment; when a       *)
(* subprocess is spawned every earlier one has exited or been killed; and  *)
(* while the subprocess of a stage runs, the file handed to it and every   *)
(* file written by an earlier stage of the run is completely written.      *)
C7_OneChildAtATime ==
    /\ Cardinality({ i \in DOMAIN procs : procs[i].status = "running" }) <= 1
    /\ \A i, j \in DOMAIN procs :
         i < j => procs[i].status \in {"exited", "killed"}
    /\ \A i \in DOMAIN procs :
         procs[i].status = "running" =>
            /\ \A f \in cwd :
                 (f.writer # 0 /\ f.writer < procs[i].stage) => f.complete
            /\ procs[i].stage > 1 =>
                 \E f \in cwd : f.name = procs[i].args[1] /\ f.complete

C7_Witness ==
    /\ Len(procs) = 2
    /\ procs[2].status = "running"
    /\ procs[1].status = "exited"
    /\ \E f \in cwd : f.writer = 1 /\ f.name = procs[2].args[1]

(* C8: when the child is still running at the timeout, run_agent returns a *)
(* failure whose reason is the timeout, and the child is no longer running *)
(* once run_agent has returned.                                            *)
C8_TimeoutKillsChild ==
    \A i \in DOMAIN procs :
        Len(Recorded) >= procs[i].stage =>
            /\ procs[i].status # "running"
            /\ procs[i].returncode = <<>> =>
                 /\ procs[i].status = "killed"
                 /\ ~Recorded[procs[i].stage].value.success
                 /\ Has(Recorded[procs[i].stage].value, "error")
                 /\ Recorded[procs[i].stage].value.error
                      = <<"Agent timed out after 10 minutes">>

C8_Witness ==
    \E i \in DOMAIN procs :
        /\ Len(Recorded) >= procs[i].stage
        /\ procs[i].status = "killed"
        /\ now - procs[i].start_time >= 600

----------------------------------------------------------------------------
(* The artifact locator *)

\* the files of the working directory find_latest_output_file may return for
\* stage k: the name starts with the prefix of the stage and ends with .json
Candidates(k) ==
    { f \in cwd : f.name.prefix = OutputPattern(k) /\ f.name.ext = ".json" }

\* the step in which find_latest_output_file returns for the current stage
Located == pc = "locate" /\ pc' \in {"run", "archive", "report"}

C12_LocatedWrittenByOwnStage ==
    other = <<>> =>
      \A k \in DOMAIN agent_outputs :
        \E f \in cwd : f.name = agent_outputs[k] /\ f.writer = k /\ f.run = 1

----------------------------------------------------------------------------
(* Two runs in one working directory *)

\* the file of the working directory located after stage k
LocatedFile(k) == CHOOSE f \in cwd : f.name = agent_outputs[k]

\* the artifact located after stage k was written by the other run
FromOtherRun(k) ==
    /\ k \in DOMAIN agent_outputs
    /\ LocatedFile(k).run = 2

\* C13: two runs in one working directory: when the locator of this run
\* returns a file the other run wrote, that file carries the prefix of the
\* stage and .json, no file the own stage child wrote is newer, and it is
\* what the next stage of this run receives as its input; the witness shows
\* that an interleaving with such a step exists.
C13_OtherRunsArtifactForwarded ==
    \A k \in Stages :
      FromOtherRun(k) =>
        /\ LocatedFile(k).name.prefix = OutputPattern(k)
        /\ LocatedFile(k).name.ext = ".json"
        /\ \A g \in Candidates(k) : g.run = 1 => g.mtime <= LocatedFile(k).mtime
        /\ \A i \in DOMAIN procs :
              procs[i].stage = k + 1 => procs[i].args[1] = agent_outputs[k]

\* the own stage 1 child wrote its output file and exited with 0, the locator
\* returned the file of the other run, and stage 2 was started on it
C13_Witness ==
    /\ FromOtherRun(1)
    /\ \E g \in Candidates(1) : g.run = 1 /\ g.writer = 1
    /\ Spawned(2)
    /\ TheProc(2).args[1] = LocatedFile(1).name

\* C14: two coordinators never share a pipeline_id nor a results directory,
\* also when both are constructed in the same second of the clock, and the
\* pipeline_id of a coordinator does not change.
C14_RunIdUnique ==
    (coordinator # <<>> /\ other # <<>>) =>
        /\ coordinator.pipeline_id # other.self.pipeline_id
        /\ coordinator.results_dir # other.self.results_dir

----------------------------------------------------------------------------
(* The results directory, the report and the exit code *)

\* run_complete_pipeline returned a failed run
ReturnedFailed == HasReturned /\ ~GetSuccess(results)

\* all three output files were found and a copy raised
CopyFailed == HasReturned /\ Len(agent_outputs) = 3 /\ copied < 3

\* the process has ended after run_complete_pipeline returned
Completed == pc = "exit" /\ HasReturned

\* the lines of the report that start with the given label
Lines(label) == { i \in DOMAIN report : report[i][1] = label }

\* C15: a results directory exists and holds files only for a run that
\* succeeded: after a failed run (at validation, at a stage or at the search
\* for an output file) there is no results directory on disk and the
\* returned dict names none.
C15_ResultsOnlyOnSuccess ==
    ReturnedFailed =>
        /\ ~results_dir.exists
        /\ results_dir.files = {}
        /\ ~Has(results, "results_directory")

C17_FailedReportNamesStage ==
    (pc = "exit" /\ ReturnedFailed /\ Len(launched) >= 1) =>
        /\ printed
        /\ \E i \in Lines("Failed At") :
              report[i][2] = FailedAtLabels[Len(launched)]
        /\ Lines("Error") \cup Lines("Stage Error") # {}

\* C18: when an exception raised inside the coordinator reaches main, the
\* process has generated a report (and tried to write it) before it exits,
\* and it exits with a code other than 0.
C18_ErrorStillReports ==
    (pc = "exit" /\ caught = "Exception") =>
        /\ report # <<>>
        /\ exit_code # <<0>>

C20_InterruptKillsChild ==
    caught = "KeyboardInterrupt" =>
        /\ pc = "exit"
        /\ exit_code = <<130>>
        /\ procs # <<>>
        /\ \A i \in DOMAIN procs : procs[i].status # "running"
        /\ child.stage = Len(launched)
        /\ Len(launched) = Len(Recorded) + 1
        /\ report = <<>>

\* the stage 2 child was running when the interrupt came, and was killed
C20_Witness ==
    /\ caught = "KeyboardInterrupt"
    /\ Len(procs) = 2
    /\ procs[2].status = "killed"
    /\ pc = "exit"

----------------------------------------------------------------------------
(* The stage programs *)

\* the stage program has exited
AgentExited == agent # <<>> /\ agent.pc = "exit"

\* the processing function returned an error result, or an exception was
\* raised in main
ProcessingFailed ==
    \/ agent.raised
    \/ agent.result # <<>> /\ Has(agent.result, "error")

\* the files the stage program wrote whose name starts with the prefix of
\* its stage
PrefixedOutputs ==
    { f \in cwd : f.writer = agent.k /\ f.name.prefix = OutputPattern(agent.k) }

\* C21: a stage program whose processing failed (error result or exception)
\* exits with a code other than 0, and one that exits with 0 has a result
\* without error and raised nothing.
C21_ExitCodeTellsFailure ==
    AgentExited =>
        /\ ProcessingFailed => agent.exit_code # <<0>>
        /\ agent.exit_code = <<0>> =>
              /\ agent.result # <<>>
              /\ ~Has(agent.result, "error")
              /\ ~agent.raised

\* C22: a stage program started by the coordinator that exits with 0 has
\* written exactly one file whose name starts with the prefix of its stage,
\* and that file ends with .json, as find_latest_output_file requires.
C22_ExitZeroLeftOneJson ==
    (AgentExited /\ agent.launcher = "coordinator" /\ agent.exit_code = <<0>>) =>
        /\ Cardinality(PrefixedOutputs) = 1
        /\ \A f \in PrefixedOutputs : f.name.ext = ".json"

\* C23: a stage program started by the coordinator passes its own check of
\* the number of arguments and reads the input path, the API key and the
\* target duration from the positions where the coordinator put them.
C23_ArgumentsMatch ==
    (agent # <<>> /\ agent.launcher = "coordinator" /\ agent.pc # "main") =>
        /\ ~agent.usage
        /\ agent.read # <<>>
        /\ agent.read.input = agent.argv[2]
        /\ agent.read.key = <<"s", "k", "-", "x">>
        /\ agent.k \in {1, 3} => str(agent.read.duration) = agent.argv[4]

----------------------------------------------------------------------------
(* validate_inputs *)

\* the step in which validate_inputs returns to run_complete_pipeline
ValidateStep == pc = "validate" /\ pc' \in {"run", "report"}

\* the issues list validate_inputs returned in that step
ReturnedIssues == IF pc' = "report" THEN results'.issues ELSE <<>>

\* the six checks in the order of the code: source file, competitor data,
\* the three agent scripts, the API key
CheckFails(i) ==
    CASE i = 1 -> \/ ~exists(call.cbr_path)
                  \/ lower(call.cbr_path.ext) \notin {".cbr", ".cbz", ".zip"}
      [] i = 2 -> \/ ~exists(coordinator.competitor_data_path)
                  \/ lower(coordinator.competitor_data_path.ext) # ".csv"
      [] i \in 3..5 -> AgentScript(i - 2) \notin scripts
      [] i = 6 -> \/ Len(coordinator.openai_api_key) < 3
                  \/ SubSeq(coordinator.openai_api_key, 1, 3) # <<"s", "k", "-">>

FailingChecks == { i \in 1..6 : CheckFails(i) }

\* the check an issue belongs to, by its text
IssueCheck(issue) ==
    CASE issue.msg \in {"CBR file not found",
                        "Invalid file type. Expected .cbr, .cbz, or .zip"} -> 1
      [] issue.msg \in {"Competitor data file not found",
                        "Invalid competitor data format. Expected .csv"} -> 2
      [] issue.msg = "Agent script not found" ->
           2 + (CHOOSE k \in Stages : AgentScript(k) = issue.path)
      [] issue.msg = "Invalid OpenAI API key format" -> 6

\* C24: validate_inputs returns valid = true exactly when its issues list is
\* empty: the pipeline goes on to stage 1 exactly when no issue was found,
\* and a rejected run carries a non-empty issues list.
C24_ValidIffNoIssues ==
    [][ValidateStep =>
         LET v == validate_inputs(coordinator, call.cbr_path, scripts)
         IN  /\ v.valid <=> v.issues = <<>>
             /\ pc' = "run" <=> v.valid
             /\ pc' = "run" <=> FailingChecks = {}
             /\ ReturnedIssues = v.issues]_vars

\* validation found issues in the two input files and nothing else
C24_Witness ==
    /\ HasReturned
    /\ Has(results, "issues")
    /\ Len(results.issues) = 2
    /\ FailingChecks = {1, 2}

\* C25: validate_inputs runs all six checks whatever failed before: the
\* issues list holds one issue for each failing check and no other, all
\* distinct and in the order of the checks, and the step changes neither the
\* working directory, the results directory nor the scripts.
C25_OneIssuePerFailingCheck ==
    [][ValidateStep =>
         /\ Len(ReturnedIssues) = Cardinality(FailingChecks)
         /\ { IssueCheck(ReturnedIssues[j]) : j \in DOMAIN ReturnedIssues } = FailingChecks
         /\ \A i, j \in DOMAIN ReturnedIssues :
               i < j => IssueCheck(ReturnedIssues[i]) < IssueCheck(ReturnedIssues[j])
         /\ cwd' = cwd
         /\ results_dir' = results_dir
         /\ scripts' = scripts]_vars

\* all six checks failed and six issues were returned
C25_Witness ==
    /\ HasReturned
    /\ Has(results, "issues")
    /\ Len(results.issues) = 6
    /\ FailingChecks = 1..6

----------------------------------------------------------------------------
(* The status of the run *)

\* the status a results dict stands for: no dict yet, a dict without
\* 'success', success True, success False
Status(d) ==
    IF d = <<>> THEN "pending"
    ELSE IF ~Has(d, "success") THEN "running"
    ELSE IF d.success THEN "succeeded" ELSE "failed"

Rank(status) ==
    CASE status = "pending" -> 0
      [] status = "running" -> 1
      [] status \in {"succeeded", "failed"} -> 2

\* C26: the status of the run only moves forward from pending over running
\* to succeeded or failed; once pipeline_results is succeeded or failed it
\* is never changed again, and the dict returned to main (status, failed_at,
\* stage results) is never changed after the return.
C26_StatusMovesForward ==
    [][/\ Rank(Status(pipeline_results')) >= Rank(Status(pipeline_results))
       /\ Rank(Status(pipeline_results)) = 2 => pipeline_results' = pipeline_results
       /\ HasReturned => results' = results]_vars

\* a run that failed at stage 2, after its report was printed and written
C26_Witness ==
    /\ pc = "exit"
    /\ report_file
    /\ Status(results) = "failed"
    /\ Status(pipeline_results) = "failed"
    /\ Has(results, "failed_at")
    /\ Len(launched) = 2

----------------------------------------------------------------------------
(* The content of the report *)

\* the lines of the STAGE BREAKDOWN that give a status and a duration
StageLines == SelectSeq(report, LAMBDA line : line[1] = "Stage")

\* C27: the report of every returned run, a run rejected at validation
\* included, shows the pipeline id, the source file and the target duration
\* of the run, its status, and one line with status and duration for each
\* stage that was launched, in the order of the launches.
C27_ReportShowsRun ==
    (pc = "exit" /\ HasReturned /\ printed) =>
        /\ report[1] = <<"Pipeline ID", <<"str", coordinator.pipeline_id>>>>
        /\ report[2] = <<"Source CBR", <<"str", call.cbr_path>>>>
        /\ report[3] = <<"Target Duration", <<"str", call.target_duration>>>>
        /\ report[4] = <<"Status", IF GetSuccess(results) THEN "SUCCESS" ELSE "FAILED">>
        /\ Len(StageLines) = Len(launched)
        /\ \A i \in DOMAIN StageLines :
              /\ StageLines[i][2] = launched[i]
              /\ StageLines[i][3] =
                   (IF ReturnedStages[i].value.success THEN "SUCCESS" ELSE "FAILED")

----------------------------------------------------------------------------
(* The files of the working directory *)

\* C28: no step of the coordinator changes or removes a file of the working
\* directory: the directory changes only while a stage child is running, and
\* then only in the files of that stage, so the output files of the stages
\* before a failed stage stay as they were; and a failed run has copied
\* nothing into the results directory.
C28_ArtifactsLeftAlone ==
    [][/\ cwd' # cwd => Running
       /\ \A f \in cwd : (f.writer # stage \/ ~Running) => f \in cwd'
       /\ ReturnedFailed' => (results_dir'.files = {} /\ copied' = 0)]_vars

\* the run failed at stage 2; the output file stage 1 wrote is still there
\* and nothing was archived
C28_Witness ==
    /\ pc = "exit"
    /\ ReturnedFailed
    /\ Len(launched) = 2
    /\ Len(agent_outputs) = 1
    /\ \E f \in cwd : f.writer = 1 /\ f.name = agent_outputs[1] /\ f.complete
    /\ results_dir.files = {}

\* C29: the file find_latest_output_file returns does not depend on the
\* order in which os.listdir enumerates the directory: whenever a file is
\* located, every order of the same listing yields that same file, also
\* when several matching files share the greatest modification time.
C29_SameFileForEveryListing ==
    [][(Located /\ agent_outputs' # agent_outputs) =>
         \A listing \in os_listdir({ f \in cwd : startswith(f.name, OutputPattern(stage)) }) :
            find_latest_output_file(listing, OutputPattern(stage))
              = <<agent_outputs'[Len(agent_outputs')]>>]_vars

----------------------------------------------------------------------------
(* Termination *)

\* C30 as claimed: every run that is started comes to return from
\* run_complete_pipeline, succeeded or failed.
C30_RunReturns == (pc = "validate") ~> HasReturned

\* C30 amended: with every child exiting or being cut off by the timeout,
\* every run that is started comes to return from run_complete_pipeline,
\* succeeded or failed, unless a KeyboardInterrupt or an exception caught in
\* main ends the process first; at most three children are ever started.
C30_RunReturnsOrIsCutShort ==
    /\ (pc = "validate") ~> (HasReturned \/ caught # "")
    /\ [](Len(procs) <= 3 /\ Len(launched) <= 3)
    /\ [](HasReturned => Rank(Status(results)) = 2)

\* stage 3 was cut off by the timeout and the run returned failed
C30_Witness ==
    /\ HasReturned
    /\ Len(procs) = 3
    /\ procs[3].status = "killed"
    /\ Status(results) = "failed"

============================================================================
